---- MODULE Spec2Model ----
(***************************************************************************)
(* Model of the RDM Timesheet Auditor (src/app.py): the "Generate Audit    *)
(* Report" button handler, parse_date_manual, clean_name, add_time_column, *)
(* process_data and the Summary-sheet writer.                              *)
(*                                                                         *)
(* Text is a sequence of one-character strings.  A calendar date is its    *)
(* ordinal in 2026 (1 Jan 2026 = 1), a timestamp is ordinal * 1440 plus    *)
(* the minute of the day, and a time of day is a minute 0..1439.           *)
(***************************************************************************)
EXTENDS Integers, Sequences, FiniteSets, TLC

VARIABLES
    start_date_str,     \* st.text_input value
    ts_file,            \* timesheet uploader: [uploaded, rows]
    att_file,           \* attendance uploader: [uploaded, rows], rows = column 2 from row 3 on
    pc,                 \* position of the button handler
    start_date,         \* result of parse_date_manual (NoDate before / on failure)
    df,                 \* the timesheet frame with the derived columns
    raw_employee_list,  \* roster names, in file order
    attendance_map,     \* insertion-ordered dict, as a sequence of <<key, name>>
    idx,                \* position of the loop over attendance_map.items()
    resolved_data,      \* per employee, per day: <<login_time, logout_time>> at line 120
    output_data,        \* per employee: the 14 summary values
    exception_logs,
    remark_logs,
    sheet               \* data rows written to the Summary sheet

vars == <<start_date_str, ts_file, att_file, pc, start_date, df, raw_employee_list,
          attendance_map, idx, resolved_data, output_data, exception_logs,
          remark_logs, sheet>>

-----------------------------------------------------------------------------
(* Bounds of the explored inputs *)

\* total number of rows uploaded: roster rows + timesheet rows
MaxInput == 3

-----------------------------------------------------------------------------
(* Values *)

None == -1
NO_LOGIN == -2
NO_LOGOUT == -3
NaT == -4
NoFile == [uploaded |-> FALSE, rows |-> <<>>]
NoDate == -1
NaN == <<"NaN">>
NoGroup == <<>>

current_year == 2026
OFFSET_HOURS == 5
WINDOW_DAYS == 7

-----------------------------------------------------------------------------
(* Characters *)

Lowers == <<"a","b","c","d","e","f","g","h","i","j","k","l","m",
            "n","o","p","q","r","s","t","u","v","w","x","y","z">>
Uppers == <<"A","B","C","D","E","F","G","H","I","J","K","L","M",
            "N","O","P","Q","R","S","T","U","V","W","X","Y","Z">>
DigitChars == <<"0","1","2","3","4","5","6","7","8","9">>

IsLower(c) == \E i \in 1..26 : Lowers[i] = c
IsUpper(c) == \E i \in 1..26 : Uppers[i] = c
IsDigit(c) == \E i \in 1..10 : DigitChars[i] = c
DigitValue(c) == (CHOOSE i \in 1..10 : DigitChars[i] = c) - 1

\* str.upper / str.lower on one character
ToUpper(c) == IF IsLower(c) THEN Uppers[CHOOSE i \in 1..26 : Lowers[i] = c] ELSE c
ToLower(c) == IF IsUpper(c) THEN Lowers[CHOOSE i \in 1..26 : Uppers[i] = c] ELSE c

IsAlnum(c) == IsLower(c) \/ IsUpper(c) \/ IsDigit(c)

RECURSIVE StripNonAlnum(_)
\* re.sub(r'[^a-zA-Z0-9]', '', s)
StripNonAlnum(s) ==
    IF s = <<>> THEN <<>>
    ELSE (IF IsAlnum(Head(s)) THEN <<Head(s)>> ELSE <<>>) \o StripNonAlnum(Tail(s))

\* str.upper on a text
Upper(s) == [i \in 1..Len(s) |-> ToUpper(s[i])]

\* clean_name: "" for a missing name, else upper-case with every character
\* that is not an ASCII letter or digit removed
clean_name(name) ==
    IF name = NaN THEN <<>> ELSE StripNonAlnum(Upper(name))

-----------------------------------------------------------------------------
(* parse_date_manual *)

IsSep(c) == c = "_" \/ c = " "

RECURSIVE SplitFrom(_, _)
\* re.split(r'[_ ]', s): cur is the token being read
SplitFrom(s, cur) ==
    IF s = <<>> THEN <<cur>>
    ELSE IF IsSep(Head(s)) THEN <<cur>> \o SplitFrom(Tail(s), <<>>)
    ELSE SplitFrom(Tail(s), Append(cur, Head(s)))

re_split(s) == SplitFrom(s, <<>>)

\* int(tok) succeeds on the modelled alphabet (letters, digits) exactly for a
\* non-empty all-digit token
IntOk(tok) == tok # <<>> /\ \A i \in 1..Len(tok) : IsDigit(tok[i])

RECURSIVE IntValue(_)
IntValue(tok) ==
    IF tok = <<>> THEN 0
    ELSE 10 * IntValue(SubSeq(tok, 1, Len(tok) - 1)) + DigitValue(tok[Len(tok)])

\* str.capitalize()[:3]
Capitalize3(tok) ==
    LET cap == [i \in 1..Len(tok) |-> IF i = 1 THEN ToUpper(tok[i]) ELSE ToLower(tok[i])]
    IN  SubSeq(cap, 1, IF Len(cap) < 3 THEN Len(cap) ELSE 3)

MonthAbbrevs == << <<"J","a","n">>, <<"F","e","b">>, <<"M","a","r">>, <<"A","p","r">>,
                   <<"M","a","y">>, <<"J","u","n">>, <<"J","u","l">>, <<"A","u","g">>,
                   <<"S","e","p">>, <<"O","c","t">>, <<"N","o","v">>, <<"D","e","c">> >>

IsMonthAbbrev(m3) == \E i \in 1..12 : MonthAbbrevs[i] = m3

\* month_map.get(month_str, 1)
month_map_get(m3) ==
    IF IsMonthAbbrev(m3) THEN CHOOSE i \in 1..12 : MonthAbbrevs[i] = m3 ELSE 1

IsLeap(y) == (y % 4 = 0 /\ y % 100 # 0) \/ y % 400 = 0

DaysInMonth(y, m) ==
    IF m = 2 THEN (IF IsLeap(y) THEN 29 ELSE 28)
    ELSE IF m \in {4, 6, 9, 11} THEN 30 ELSE 31

\* datetime(y, m, d) raises ValueError unless this holds
ValidDate(y, m, d) == m \in 1..12 /\ d >= 1 /\ d <= DaysInMonth(y, m)

RECURSIVE DaysBeforeMonth(_, _)
DaysBeforeMonth(y, m) ==
    IF m <= 1 THEN 0 ELSE DaysBeforeMonth(y, m - 1) + DaysInMonth(y, m - 1)

RECURSIVE DaysBeforeYear(_)
DaysBeforeYear(y) ==
    IF y <= current_year THEN 0
    ELSE DaysBeforeYear(y - 1) + (IF IsLeap(y - 1) THEN 366 ELSE 365)

\* the ordinal of a calendar date of 2026 or later
Ordinal(y, m, d) == DaysBeforeYear(y) + DaysBeforeMonth(y, m) + d

\* parse_date_manual: NoDate when any step of the try block raises
parse_date_manual(user_input) ==
    LET clean_input == re_split(user_input) IN
    IF ~IntOk(clean_input[1]) THEN NoDate
    ELSE IF Len(clean_input) < 2 THEN NoDate
    ELSE LET day == IntValue(clean_input[1])
             month == month_map_get(Capitalize3(clean_input[2]))
         IN  IF ValidDate(current_year, month, day)
             THEN Ordinal(current_year, month, day)
             ELSE NoDate

-----------------------------------------------------------------------------
(* The timesheet frame: add_time_column and the derived columns *)

\* A 'Date Time' cell is described by what the two regular expressions of
\* lines 61-62 extract from it: date = <<y, m, d>> for (\d{4}-\d{2}-\d{2}),
\* time = <<h, mi>> for (\d{2}:\d{2}), NoGroup where the pattern has no match.
\* The cell's text is "YYYY-MM-DD HH:MM", "YYYY-MM-DD", "HH:MM" or, with
\* neither group, a text shorter than five characters such as "n/a".

ValidTime(t) == t[1] \in 0..23 /\ t[2] \in 0..59

\* add_time_column: pd.to_datetime(str(x)[-5:], format='%H:%M') raises when the
\* text has five or more characters and its last five are not a time
TimeExtractedRaises(cell) ==
    IF cell.time # NoGroup THEN ~ValidTime(cell.time) ELSE cell.date # NoGroup

TimeExtracted(cell) ==
    IF cell.time # NoGroup THEN cell.time[1] * 60 + cell.time[2] ELSE None

\* pd.to_datetime(date + ' ' + time) raises on a text that matches both
\* patterns and is no calendar date and time
DateTimeRaises(cell) ==
    /\ cell.date # NoGroup
    /\ cell.time # NoGroup
    /\ ~(ValidDate(cell.date[1], cell.date[2], cell.date[3]) /\ ValidTime(cell.time))

\* df['DateTime']: NaT when either extract is NaN
DateTimeOf(cell) ==
    IF cell.date = NoGroup \/ cell.time = NoGroup THEN NaT
    ELSE Ordinal(cell.date[1], cell.date[2], cell.date[3]) * 1440
         + cell.time[1] * 60 + cell.time[2]

\* WorkDateOf with the shift of the day boundary left out
WorkDateNoOffset(ts) ==
    IF ts = NaT THEN NaT ELSE ts \div 1440

\* df['WorkDate']: (DateTime - timedelta(hours=5)).date(); NaT stays NaT
WorkDateOf(ts) ==
    IF ts = NaT THEN NaT ELSE (ts - OFFSET_HOURS * 60) \div 1440

\* df['TimeOnly']: DateTime.dt.time
TimeOnlyOf(ts) == IF ts = NaT THEN NaT ELSE ts % 1440

DerivedRow(r) ==
    [Name |-> r.Name, DateTimeCell |-> r.DateTimeCell, Type |-> r.Type,
     Remark |-> r.Remark,
     TimeExtracted |-> TimeExtracted(r.DateTimeCell),
     DateTime |-> DateTimeOf(r.DateTimeCell),
     WorkDate |-> WorkDateOf(DateTimeOf(r.DateTimeCell)),
     TimeOnly |-> TimeOnlyOf(DateTimeOf(r.DateTimeCell)),
     CleanName |-> clean_name(r.Name)]

\* lines 45-68 raise for this timesheet
LoadRaises(rows) ==
    \E i \in 1..Len(rows) :
        TimeExtractedRaises(rows[i].DateTimeCell) \/ DateTimeRaises(rows[i].DateTimeCell)

-----------------------------------------------------------------------------
(* The roster *)

RECURSIVE NotNa(_)
\* the cells that are not NaN, in order
NotNa(cells) ==
    IF cells = <<>> THEN <<>>
    ELSE (IF Head(cells) # NaN THEN <<Head(cells)>> ELSE <<>>) \o NotNa(Tail(cells))

\* raw_employee_list: rows 2 .. min(100, len) - 1 of column 1, NaN dropped
RawEmployeeList(cells) ==
    NotNa(SubSeq(cells, 1, IF Len(cells) < 98 THEN Len(cells) ELSE 98))

\* d[key] = name on an insertion-ordered dict
DictSet(d, key, name) ==
    IF \E i \in 1..Len(d) : d[i][1] = key
    THEN [i \in 1..Len(d) |-> IF d[i][1] = key THEN <<key, name>> ELSE d[i]]
    ELSE Append(d, <<key, name>>)

RECURSIVE DictFrom(_, _)
DictFrom(names, d) ==
    IF names = <<>> THEN d
    ELSE DictFrom(Tail(names), DictSet(d, clean_name(Head(names)), Head(names)))

RECURSIVE DictFromKeepFirst(_, _)
DictFromKeepFirst(names, d) ==
    IF names = <<>> THEN d
    ELSE DictFromKeepFirst(Tail(names),
            IF \E i \in 1..Len(d) : d[i][1] = clean_name(Head(names)) THEN d
            ELSE Append(d, <<clean_name(Head(names)), Head(names)>>))

\* AttendanceMap with the first-listed name kept for a key
AttendanceMapKeepFirst(names) == DictFromKeepFirst(names, <<>>)

\* attendance_map = {clean_name(name): name for name in raw_employee_list}
AttendanceMap(names) == DictFrom(names, <<>>)

-----------------------------------------------------------------------------
(* One employee-day: lines 88-147 *)

\* sort_values('DateTime'): ascending, NaT last, equal keys in frame order
ComesBefore(a, b) ==
    /\ a.DateTime # NaT
    /\ (b.DateTime = NaT \/ a.DateTime < b.DateTime)

InsertSorted(sorted, r) ==
    LET n == Cardinality({i \in 1..Len(sorted) : ~ComesBefore(r, sorted[i])})
    IN  SubSeq(sorted, 1, n) \o <<r>> \o SubSeq(sorted, n + 1, Len(sorted))

RECURSIVE SortByDateTime(_)
SortByDateTime(rows) ==
    IF rows = <<>> THEN <<>>
    ELSE InsertSorted(SortByDateTime(SubSeq(rows, 1, Len(rows) - 1)), rows[Len(rows)])

\* emp_records = df[df['CleanName'] == cleaned_name].sort_values('DateTime')
EmpRecords(frame, cleaned_name) ==
    LET isEmp(r) == r.CleanName = cleaned_name
    IN  SortByDateTime(SelectSeq(frame, isEmp))

\* day_logs = emp_records[emp_records['WorkDate'] == work_date]
DayLogs(emp_records, work_date) ==
    LET isDay(r) == r.WorkDate = work_date
    IN  SelectSeq(emp_records, isDay)

OfType(rows, types) ==
    LET isType(r) == r.Type \in types
    IN  SelectSeq(rows, isType)

\* rows.sort_values('DateTime').iloc[0]['TimeOnly']
FirstTime(rows) == SortByDateTime(rows)[1].TimeOnly

\* rows.sort_values('DateTime').iloc[-1]['TimeOnly']
LastTime(rows) == SortByDateTime(rows)[Len(rows)].TimeOnly

\* LoginTime with Start Work and Site In pooled
LoginTimePooled(day_logs) ==
    LET logins == OfType(day_logs, {"Start Work", "Site In"})
    IN  IF logins # <<>> THEN FirstTime(logins) ELSE NO_LOGIN

\* LOGIN LOGIC, lines 99-109, on a non-empty day
LoginTime(day_logs) ==
    LET starts == OfType(day_logs, {"Start Work"})
        sites_in == OfType(day_logs, {"Site In"})
    IN  IF starts # <<>> THEN FirstTime(starts)
        ELSE IF sites_in # <<>> THEN FirstTime(sites_in)
        ELSE NO_LOGIN

\* LogoutTime with End Work preferred to Site Out
LogoutTimeEndFirst(day_logs) ==
    LET ends == OfType(day_logs, {"End Work"})
        sites_out == OfType(day_logs, {"Site Out"})
    IN  IF ends # <<>> THEN LastTime(ends)
        ELSE IF sites_out # <<>> THEN LastTime(sites_out)
        ELSE NO_LOGOUT

\* LOGOUT LOGIC, lines 112-119, on a non-empty day
LogoutTime(day_logs) ==
    LET valid_logouts == OfType(day_logs, {"End Work", "Site Out"})
    IN  IF valid_logouts # <<>> THEN LastTime(valid_logouts) ELSE NO_LOGOUT

\* Cleanup left out
CleanupSkipped(pair) == pair

\* CLEANUP FOR EMPTY DAYS, lines 122-124
Cleanup(pair) ==
    IF pair[1] = NO_LOGIN /\ pair[2] = NO_LOGOUT THEN <<None, None>> ELSE pair

\* ExceptionsOf without its elif branch
ExceptionsOfMissingOnly(original_name, work_date, login_time, logout_time) ==
    IF logout_time = NO_LOGOUT /\ login_time # None
    THEN << [Name |-> original_name, Date |-> work_date, Time |-> login_time,
             Reason |-> "Missing Logout"] >>
    ELSE <<>>

\* EXCEPTION LOGGING, lines 127-130
ExceptionsOf(original_name, work_date, login_time, logout_time) ==
    IF logout_time = NO_LOGOUT /\ login_time # None
    THEN << [Name |-> original_name, Date |-> work_date, Time |-> login_time,
             Reason |-> "Missing Logout"] >>
    ELSE IF login_time = NO_LOGIN /\ logout_time # None
    THEN << [Name |-> original_name, Date |-> work_date, Time |-> logout_time,
             Reason |-> "Logout without Login"] >>
    ELSE <<>>

\* REMARK LOGGING, lines 134-143; Day and Time are kept as the date and the
\* minute that strftime renders
RemarksOf(original_name, work_date, day_logs, has_login, has_logout) ==
    LET hasRemark(r) == r.Remark # NaN
        day_remarks == SelectSeq(day_logs, hasRemark)
    IN  [i \in 1..Len(day_remarks) |->
            [Name |-> original_name, Day |-> work_date,
             Time |-> day_remarks[i].TimeOnly,
             Login |-> has_login, Logout |-> has_logout,
             Remark |-> day_remarks[i].Remark]]

\* `x if x else None`: a time and a non-empty string are true, None is not
OrNone(x) == IF x # None THEN x ELSE None

\* the body of the loop over date_range for one work_date
ReconcileDay(original_name, emp_records, work_date) ==
    LET day_logs == DayLogs(emp_records, work_date) IN
    IF day_logs = <<>>
    THEN [resolved |-> <<None, None>>, cells |-> <<None, None>>,
          exceptions |-> <<>>, remarks |-> <<>>]
    ELSE LET login0 == LoginTime(day_logs)
             logout0 == LogoutTime(day_logs)
             final == Cleanup(<<login0, logout0>>)
         IN  [resolved |-> <<login0, logout0>>,
              cells |-> <<OrNone(final[1]), OrNone(final[2])>>,
              exceptions |-> ExceptionsOf(original_name, work_date, final[1], final[2]),
              remarks |-> RemarksOf(original_name, work_date, day_logs,
                                    login0 # NO_LOGIN, logout0 # NO_LOGOUT)]

\* date_range = [(start_date + timedelta(days=i)).date() for i in range(7)]
DateRange(start) == [i \in 1..WINDOW_DAYS |-> start + (i - 1)]

RECURSIVE Flatten(_)
Flatten(seqs) == IF seqs = <<>> THEN <<>> ELSE Head(seqs) \o Flatten(Tail(seqs))

\* one iteration of the loop over attendance_map.items(), lines 84-149
ReconcileRow(frame, cleaned_name, original_name, start) ==
    LET emp_records == EmpRecords(frame, cleaned_name)
        days == [i \in 1..WINDOW_DAYS |->
                    ReconcileDay(original_name, emp_records, DateRange(start)[i])]
    IN  [resolved |-> [i \in 1..WINDOW_DAYS |-> days[i].resolved],
         row_times |-> Flatten([i \in 1..WINDOW_DAYS |-> days[i].cells]),
         exceptions |-> Flatten([i \in 1..WINDOW_DAYS |-> days[i].exceptions]),
         remarks |-> Flatten([i \in 1..WINDOW_DAYS |-> days[i].remarks])]

-----------------------------------------------------------------------------
(* The inputs explored *)

Types == {"Start Work", "Site In", "End Work", "Site Out", "Other"}

Cell(date, time) == [date |-> date, time |-> time]

Jan23_0501 == Cell(<<2026, 1, 23>>, <<5, 1>>)
Jan24_0459 == Cell(<<2026, 1, 24>>, <<4, 59>>)
Jan24_0501 == Cell(<<2026, 1, 24>>, <<5, 1>>)
\* "n/a": neither pattern matches
NoMatchCell == Cell(NoGroup, NoGroup)
\* "2026-01-23": the time pattern does not match
DateOnlyCell == Cell(<<2026, 1, 23>>, NoGroup)
\* "2026-02-30 10:00": both patterns match, no such day
Feb30Cell == Cell(<<2026, 2, 30>>, <<10, 0>>)

Event(name, cell, type, remark) ==
    [Name |-> name, DateTimeCell |-> cell, Type |-> type, Remark |-> remark]

LogJS == <<"J", "S">>
LogAl == <<"a", "l">>
RemarkText == <<"o", "k">>

\* the rows a timesheet is made of: every type at two times of one operational
\* day for one employee, an event on the next day, a second employee, and
\* three rows whose 'Date Time' is no date and time
Events ==
    {Event(LogJS, c, t, IF t = "Other" THEN RemarkText ELSE NaN) :
        c \in {Jan23_0501, Jan24_0459}, t \in Types}
    \cup {Event(LogJS, Jan24_0501, "Start Work", NaN),
          Event(LogAl, Jan23_0501, "Start Work", RemarkText),
          Event(LogAl, Jan24_0459, "Site Out", NaN),
          Event(LogJS, NoMatchCell, "Start Work", RemarkText),
          Event(LogJS, DateOnlyCell, "Site In", NaN),
          Event(LogJS, Feb30Cell, "End Work", NaN)}

RosterCells == {<<"J", ".", "S">>, <<"j", " ", "s">>, <<"A", "l">>, NaN}

RECURSIVE SeqsOfLen(_, _)
\* the sequences of length n over S
SeqsOfLen(S, n) ==
    IF n = 0 THEN {<<>>}
    ELSE {Append(q, x) : q \in SeqsOfLen(S, n - 1), x \in S}

File(rows) == [uploaded |-> TRUE, rows |-> rows]

\* the sizes <<timesheet rows, roster rows>> of non-empty files of at most
\* MaxInput rows together
FileSizes == {nm \in (1..MaxInput) \X (1..MaxInput) : nm[1] + nm[2] <= MaxInput}

Text23Jan == <<"2", "3", "_", "J", "a", "n">>

\* start-date texts: well formed, and malformed in each way
DateInputs ==
    {Text23Jan,
     <<"2", "3", " ", "j", "a", "n">>,
     <<"2", "3", "_", "J", "A", "N", "U", "A", "R", "Y">>,
     <<"2", "8", "_", "F", "e", "b">>,
     <<"2", "3", "_", "F", "o", "o">>,
     <<"2", "3", "_">>,
     <<"2", "3">>,
     <<"a", "b", "_", "J", "a", "n">>,
     <<"_", "J", "a", "n">>,
     <<"0", "_", "J", "a", "n">>,
     <<"3", "0", "_", "F", "e", "b">>,
     <<"3", "1", "_", "A", "p", "r">>,
     <<"J", "a", "n", "_", "2", "3">>,
     <<>>}

CanonTimesheet == File(<<Event(LogJS, Jan23_0501, "Start Work", NaN)>>)
CanonRoster == File(<<<<"J", ".", "S">>>>)

\* every start-date text against one pair of files (or a missing upload)
TextInputs ==
    /\ start_date_str \in DateInputs
    /\ ts_file \in {NoFile, CanonTimesheet}
    /\ att_file \in {NoFile, CanonRoster}

\* every pair of files against the start date 23_Jan
FileInputs ==
    /\ start_date_str = Text23Jan
    /\ \E nm \in FileSizes :
        /\ \E rows \in SeqsOfLen(Events, nm[1]) : ts_file = File(rows)
        /\ \E rows \in SeqsOfLen(RosterCells, nm[2]) : att_file = File(rows)

-----------------------------------------------------------------------------
(* The program *)

Init ==
    /\ (TextInputs \/ FileInputs)
    /\ pc = "idle"
    /\ start_date = NoDate
    /\ df = <<>>
    /\ raw_employee_list = <<>>
    /\ attendance_map = <<>>
    /\ idx = 1
    /\ resolved_data = <<>>
    /\ output_data = <<>>
    /\ exception_logs = <<>>
    /\ remark_logs = <<>>
    /\ sheet = <<>>

inputs == <<start_date_str, ts_file, att_file>>
results == <<resolved_data, output_data, exception_logs, remark_logs>>
frames == <<df, raw_employee_list, attendance_map, idx>>

\* the three truth tests of line 167
AllGiven == ts_file.uploaded /\ att_file.uploaded /\ start_date_str # <<>>

\* button pressed with an upload or the date missing: st.warning, line 268
ClickIncomplete ==
    /\ pc = "idle"
    /\ ~AllGiven
    /\ pc' = "warning"
    /\ UNCHANGED <<inputs, start_date, frames, results, sheet>>

\* button pressed, parse_date_manual returns None: st.error, line 266
ClickInvalidDate ==
    /\ pc = "idle"
    /\ AllGiven
    /\ parse_date_manual(start_date_str) = NoDate
    /\ start_date' = NoDate
    /\ pc' = "invalid"
    /\ UNCHANGED <<inputs, frames, results, sheet>>

\* button pressed, the date parses: process_data is called, line 171
ClickGenerate ==
    /\ pc = "idle"
    /\ AllGiven
    /\ parse_date_manual(start_date_str) # NoDate
    /\ start_date' = parse_date_manual(start_date_str)
    /\ pc' = "process"
    /\ UNCHANGED <<inputs, frames, results, sheet>>

\* process_data lines 45-68 raise: the run ends with the exception
LoadAbort ==
    /\ pc = "process"
    /\ LoadRaises(ts_file.rows)
    /\ pc' = "aborted"
    /\ UNCHANGED <<inputs, start_date, frames, results, sheet>>

\* process_data lines 40-82: the frame, the roster and the empty outputs
LoadData ==
    /\ pc = "process"
    /\ ~LoadRaises(ts_file.rows)
    /\ df' = [i \in 1..Len(ts_file.rows) |-> DerivedRow(ts_file.rows[i])]
    /\ raw_employee_list' = RawEmployeeList(att_file.rows)
    /\ attendance_map' = AttendanceMap(RawEmployeeList(att_file.rows))
    /\ idx' = 1
    /\ resolved_data' = <<>>
    /\ output_data' = <<>>
    /\ exception_logs' = <<>>
    /\ remark_logs' = <<>>
    /\ pc' = "loop"
    /\ UNCHANGED <<inputs, start_date, sheet>>

\* one iteration of `for cleaned_name, original_name in attendance_map.items()`
ReconcileEmployee ==
    /\ pc = "loop"
    /\ idx <= Len(attendance_map)
    /\ LET row == ReconcileRow(df, attendance_map[idx][1], attendance_map[idx][2],
                               start_date)
       IN  /\ resolved_data' = Append(resolved_data, row.resolved)
           /\ output_data' = Append(output_data, row.row_times)
           /\ exception_logs' = exception_logs \o row.exceptions
           /\ remark_logs' = remark_logs \o row.remarks
    /\ idx' = idx + 1
    /\ UNCHANGED <<inputs, pc, start_date, df, raw_employee_list, attendance_map, sheet>>

\* line 151: the loop is over, process_data returns
Return ==
    /\ pc = "loop"
    /\ idx > Len(attendance_map)
    /\ pc' = "returned"
    /\ UNCHANGED <<inputs, start_date, frames, results, sheet>>

\* zip(names, df_out.itertuples(index=False)), lines 216-228
SummaryRows(names, rows) ==
    [i \in 1..(IF Len(names) < Len(rows) THEN Len(names) ELSE Len(rows)) |->
        [No |-> i, Name |-> names[i], Values |-> rows[i]]]

\* the Summary sheet's data rows are written
WriteSummary ==
    /\ pc = "returned"
    /\ sheet' = SummaryRows(raw_employee_list, output_data)
    /\ pc' = "written"
    /\ UNCHANGED <<inputs, start_date, frames, results>>

Next ==
    \/ ClickIncomplete
    \/ ClickInvalidDate
    \/ ClickGenerate
    \/ LoadAbort
    \/ LoadData
    \/ ReconcileEmployee
    \/ Return
    \/ WriteSummary

Spec == Init /\ [][Next]_vars

-----------------------------------------------------------------------------
(* Vocabulary of the properties *)

Processed == 1..Len(output_data)
WindowDays == 1..WINDOW_DAYS
KeyOf(j) == attendance_map[j][1]
NameOf(j) == attendance_map[j][2]
DayOf(i) == start_date + (i - 1)

\* the frame rows of key k assigned to operational day d
RowsOn(k, d) == {n \in 1..Len(df) : df[n].CleanName = k /\ df[n].WorkDate = d}
RowsOfType(R, types) == {n \in R : df[n].Type \in types}

LoginTypes == {"Start Work", "Site In"}
LogoutTypes == {"End Work", "Site Out"}

\* t is the time of day of a row of R that no row of R precedes / follows
IsEarliestTime(R, t) ==
    \E n \in R : df[n].TimeOnly = t /\ \A m \in R : df[n].DateTime <= df[m].DateTime
IsLatestTime(R, t) ==
    \E n \in R : df[n].TimeOnly = t /\ \A m \in R : df[m].DateTime <= df[n].DateTime

\* the login candidates that decide the day: Start Work rows if any, else Site In
DecidingLogins(R) ==
    IF RowsOfType(R, {"Start Work"}) # {} THEN RowsOfType(R, {"Start Work"})
    ELSE RowsOfType(R, {"Site In"})

ResolvedLogin(j, i) == resolved_data[j][i][1]
ResolvedLogout(j, i) == resolved_data[j][i][2]
LoginCell(j, i) == output_data[j][2 * i - 1]
LogoutCell(j, i) == output_data[j][2 * i]

\* the exception records of a name on a day, by reason
ExceptionsAt(name, d, reason) ==
    {x \in 1..Len(exception_logs) :
        /\ exception_logs[x].Name = name
        /\ exception_logs[x].Date = d
        /\ exception_logs[x].Reason = reason}

-----------------------------------------------------------------------------
(* C1 *)

\* C1: on every reconciled employee-day with a Start Work event the resolved
\* login is the time of the earliest Start Work by timestamp, whatever Site In
\* events the day has; with no Start Work but a Site In it is the earliest
\* Site In; with events of neither type it is NO LOGIN (before the cleanup).
C1_LoginSelection ==
    \A j \in Processed : \A i \in WindowDays :
        LET R == RowsOn(KeyOf(j), DayOf(i))
            starts == RowsOfType(R, {"Start Work"})
            sites_in == RowsOfType(R, {"Site In"})
        IN  /\ starts # {} => IsEarliestTime(starts, ResolvedLogin(j, i))
            /\ (starts = {} /\ sites_in # {}) => IsEarliestTime(sites_in, ResolvedLogin(j, i))
            /\ (R # {} /\ starts = {} /\ sites_in = {}) => ResolvedLogin(j, i) = NO_LOGIN

\* a reconciled day whose Site In precedes its Start Work and whose login is
\* the Start Work's time, not the Site In's
C1_Witness ==
    \E j \in Processed : \E i \in WindowDays :
        LET R == RowsOn(KeyOf(j), DayOf(i)) IN
        \E n \in RowsOfType(R, {"Start Work"}) : \E m \in RowsOfType(R, {"Site In"}) :
            /\ df[m].DateTime < df[n].DateTime
            /\ ResolvedLogin(j, i) = df[n].TimeOnly
            /\ ResolvedLogin(j, i) # df[m].TimeOnly

-----------------------------------------------------------------------------
(* C2 *)

\* C2: on every reconciled employee-day the resolved logout is the time of the
\* latest event, by timestamp, among the End Work and Site Out events together;
\* with events but none of these types it is NO LOGOUT (before the cleanup).
C2_LogoutSelection ==
    \A j \in Processed : \A i \in WindowDays :
        LET R == RowsOn(KeyOf(j), DayOf(i))
            pool == RowsOfType(R, LogoutTypes)
        IN  /\ pool # {} => IsLatestTime(pool, ResolvedLogout(j, i))
            /\ (R # {} /\ pool = {}) => ResolvedLogout(j, i) = NO_LOGOUT

\* a reconciled day whose Site Out is later than its End Work and wins
C2_Witness ==
    \E j \in Processed : \E i \in WindowDays :
        LET R == RowsOn(KeyOf(j), DayOf(i)) IN
        \E n \in RowsOfType(R, {"Site Out"}) : \E m \in RowsOfType(R, {"End Work"}) :
            /\ df[m].DateTime < df[n].DateTime
            /\ ResolvedLogout(j, i) = df[n].TimeOnly
            /\ ResolvedLogout(j, i) # df[m].TimeOnly

-----------------------------------------------------------------------------
(* C3 *)

\* C3: for every reconciled roster key and window day there is one Missing
\* Logout record exactly when the day has a login candidate and no logout
\* candidate, carrying the login time; one Logout without Login record exactly
\* when it has a logout candidate and no login candidate, carrying the logout
\* time; never both, none on a normal or an empty day, and no other record.
C3_PrimaryAnomalyRule ==
    /\ \A j \in Processed : \A i \in WindowDays :
        LET R == RowsOn(KeyOf(j), DayOf(i))
            logins == RowsOfType(R, LoginTypes)
            logouts == RowsOfType(R, LogoutTypes)
            missing == ExceptionsAt(NameOf(j), DayOf(i), "Missing Logout")
            orphan == ExceptionsAt(NameOf(j), DayOf(i), "Logout without Login")
        IN  /\ Cardinality(missing) = (IF logins # {} /\ logouts = {} THEN 1 ELSE 0)
            /\ Cardinality(orphan) = (IF logins = {} /\ logouts # {} THEN 1 ELSE 0)
            /\ Cardinality(missing) + Cardinality(orphan) <= 1
            /\ \A x \in missing :
                  IsEarliestTime(DecidingLogins(R), exception_logs[x].Time)
            /\ \A x \in orphan : IsLatestTime(logouts, exception_logs[x].Time)
    /\ \A x \in 1..Len(exception_logs) :
        /\ exception_logs[x].Reason \in {"Missing Logout", "Logout without Login"}
        /\ \E j \in Processed : \E i \in WindowDays :
              exception_logs[x].Name = NameOf(j) /\ exception_logs[x].Date = DayOf(i)

\* a finished run that logged one exception of each kind
C3_Witness ==
    /\ pc = "returned"
    /\ \E x, y \in 1..Len(exception_logs) :
        /\ exception_logs[x].Reason = "Missing Logout"
        /\ exception_logs[y].Reason = "Logout without Login"

-----------------------------------------------------------------------------
(* C4 *)

\* C4: every reconciled employee-day with a Site In event and no Site Out
\* event has a MissingSiteOut exception record, whatever else was recorded.
C4_MissingSiteOutEmitted ==
    \A j \in Processed : \A i \in WindowDays :
        LET R == RowsOn(KeyOf(j), DayOf(i)) IN
        (RowsOfType(R, {"Site In"}) # {} /\ RowsOfType(R, {"Site Out"}) = {})
            => ExceptionsAt(NameOf(j), DayOf(i), "MissingSiteOut") # {}

-----------------------------------------------------------------------------
(* C5 *)

\* C5: a reconciled employee-day with no event, or with events of
\* unrecognized types only, has both summary cells None and no exception
\* record; and no day of the summary holds NO LOGIN together with NO LOGOUT.
C5_EmptyDay ==
    \A j \in Processed : \A i \in WindowDays :
        LET R == RowsOn(KeyOf(j), DayOf(i)) IN
        /\ RowsOfType(R, LoginTypes \cup LogoutTypes) = {} =>
              /\ LoginCell(j, i) = None
              /\ LogoutCell(j, i) = None
              /\ \A x \in 1..Len(exception_logs) :
                    ~(exception_logs[x].Name = NameOf(j) /\ exception_logs[x].Date = DayOf(i))
        /\ ~(LoginCell(j, i) = NO_LOGIN /\ LogoutCell(j, i) = NO_LOGOUT)

\* a reconciled day that has events, all of unrecognized type, and empty cells
C5_Witness ==
    \E j \in Processed : \E i \in WindowDays :
        LET R == RowsOn(KeyOf(j), DayOf(i)) IN
        /\ R # {}
        /\ \A n \in R : df[n].Type = "Other"
        /\ ResolvedLogin(j, i) = NO_LOGIN
        /\ LoginCell(j, i) = None /\ LogoutCell(j, i) = None

-----------------------------------------------------------------------------
(* C6 *)

\* the rows whose 'Date Time' is a date and a time
HasTimestamp(n) ==
    df[n].DateTimeCell.date # NoGroup /\ df[n].DateTimeCell.time # NoGroup

CalendarDay(n) ==
    LET d == df[n].DateTimeCell.date IN Ordinal(d[1], d[2], d[3])

MinuteOfDay(n) ==
    LET t == df[n].DateTimeCell.time IN t[1] * 60 + t[2]

\* the calendar date of the timestamp minus five hours
AssignedDay(n) == IF MinuteOfDay(n) < 5 * 60 THEN CalendarDay(n) - 1 ELSE CalendarDay(n)

RowsAssigned(k, d) ==
    {n \in 1..Len(df) : HasTimestamp(n) /\ df[n].CleanName = k /\ AssignedDay(n) = d}

\* C6: every row with a timestamp has the calendar date of (timestamp - 5 h)
\* as its one operational day, and summary cells, exception records and remark
\* records of a day come only from rows assigned to that day.
C6_OperationalDay ==
    /\ \A n \in 1..Len(df) : HasTimestamp(n) => df[n].WorkDate = AssignedDay(n)
    /\ \A j \in Processed : \A i \in WindowDays :
        LET A == RowsAssigned(KeyOf(j), DayOf(i)) IN
        /\ LoginCell(j, i) \notin {None, NO_LOGIN} =>
              \E n \in A : MinuteOfDay(n) = LoginCell(j, i)
        /\ LogoutCell(j, i) \notin {None, NO_LOGOUT} =>
              \E n \in A : MinuteOfDay(n) = LogoutCell(j, i)
        /\ (LoginCell(j, i) # None \/ LogoutCell(j, i) # None) => A # {}
    /\ \A x \in 1..Len(exception_logs) :
        \E j \in Processed :
            /\ exception_logs[x].Name = NameOf(j)
            /\ \E n \in RowsAssigned(KeyOf(j), exception_logs[x].Date) :
                  MinuteOfDay(n) = exception_logs[x].Time
    /\ \A x \in 1..Len(remark_logs) :
        \E j \in Processed :
            /\ remark_logs[x].Name = NameOf(j)
            /\ \E n \in RowsAssigned(KeyOf(j), remark_logs[x].Day) :
                  /\ MinuteOfDay(n) = remark_logs[x].Time
                  /\ df[n].Remark = remark_logs[x].Remark

\* a finished run with a 04:59 row and a 05:01 row of one calendar date, the
\* first filling the cells of the day before and the second those of the date
C6_Witness ==
    /\ pc = "returned"
    /\ \E j \in Processed : \E i \in 1..(WINDOW_DAYS - 1) :
        \E n, m \in 1..Len(df) :
            /\ HasTimestamp(n) /\ HasTimestamp(m)
            /\ df[n].CleanName = KeyOf(j) /\ df[m].CleanName = KeyOf(j)
            /\ CalendarDay(n) = CalendarDay(m)
            /\ MinuteOfDay(n) = 4 * 60 + 59 /\ MinuteOfDay(m) = 5 * 60 + 1
            /\ df[n].WorkDate = DayOf(i) /\ df[m].WorkDate = DayOf(i + 1)
            /\ df[n].Type = "Start Work" /\ df[m].Type = "Start Work"
            /\ LoginCell(j, i) = MinuteOfDay(n)
            /\ LoginCell(j, i + 1) = MinuteOfDay(m)

-----------------------------------------------------------------------------
(* C7 *)

\* name is a roster row that no later row shares its key with
LastListed(name) ==
    \E p \in 1..Len(raw_employee_list) :
        /\ raw_employee_list[p] = name
        /\ \A q \in (p + 1)..Len(raw_employee_list) :
              clean_name(raw_employee_list[q]) # clean_name(name)

RosterKeys == {clean_name(raw_employee_list[p]) : p \in 1..Len(raw_employee_list)}

\* C7: roster rows with one key are reconciled once - one summary row per key,
\* one exception record at most per day, one remark record per remarked row -
\* and every exception and remark record carries the last-listed name of its key.
C7_RosterDedup ==
    /\ \A j1, j2 \in 1..Len(attendance_map) : j1 # j2 => KeyOf(j1) # KeyOf(j2)
    /\ pc \in {"returned", "written"} => Len(output_data) = Cardinality(RosterKeys)
    /\ \A x \in 1..Len(exception_logs) : LastListed(exception_logs[x].Name)
    /\ \A x \in 1..Len(remark_logs) : LastListed(remark_logs[x].Name)
    /\ \A x, y \in 1..Len(exception_logs) :
          (exception_logs[x].Name = exception_logs[y].Name
           /\ exception_logs[x].Date = exception_logs[y].Date) => x = y
    /\ \A j \in Processed : \A i \in WindowDays :
          Cardinality({x \in 1..Len(remark_logs) :
                          remark_logs[x].Name = NameOf(j) /\ remark_logs[x].Day = DayOf(i)})
          = Cardinality({n \in RowsOn(KeyOf(j), DayOf(i)) : df[n].Remark # NaN})

\* a finished run on a roster with two differently written rows of one key,
\* with an exception recorded under the later one
C7_Witness ==
    /\ pc = "returned"
    /\ \E p, q \in 1..Len(raw_employee_list) :
        /\ p < q
        /\ raw_employee_list[p] # raw_employee_list[q]
        /\ clean_name(raw_employee_list[p]) = clean_name(raw_employee_list[q])
        /\ \E x \in 1..Len(exception_logs) : exception_logs[x].Name = raw_employee_list[q]

-----------------------------------------------------------------------------
(* C8 *)

\* the cell is a date and a time
Parsable(cell) ==
    /\ cell.date # NoGroup
    /\ cell.time # NoGroup
    /\ ValidDate(cell.date[1], cell.date[2], cell.date[3])
    /\ ValidTime(cell.time)

\* what process_data returns for the start date, the roster and these rows
Reconciled(rows) ==
    LET frame == [i \in 1..Len(rows) |-> DerivedRow(rows[i])]
        map == AttendanceMap(RawEmployeeList(att_file.rows))
        each == [j \in 1..Len(map) |-> ReconcileRow(frame, map[j][1], map[j][2], start_date)]
    IN  << [j \in 1..Len(map) |-> each[j].row_times],
           Flatten([j \in 1..Len(map) |-> each[j].exceptions]),
           Flatten([j \in 1..Len(map) |-> each[j].remarks]) >>

ParsableRows ==
    LET ok(r) == Parsable(r.DateTimeCell) IN SelectSeq(ts_file.rows, ok)

\* C8: a timesheet row whose 'Date Time' is no date and time never aborts the
\* run, and the run returns what it returns for the timesheet without such rows.
C8_UnparsableRowHarmless ==
    /\ pc # "aborted"
    /\ pc = "returned" =>
          <<output_data, exception_logs, remark_logs>> = Reconciled(ParsableRows)

\* what holds of the code: a run that gets past the loading of the timesheet
\* returns what it returns without the rows that have no timestamp
UnparsableRowIgnoredOnceLoaded ==
    pc = "returned" =>
        <<output_data, exception_logs, remark_logs>> = Reconciled(ParsableRows)

-----------------------------------------------------------------------------
(* C9 *)

\* the text is <day>_<month> or <day> <month>: a numeric day, a month token
\* that is one of the twelve abbreviations, and a day of that month
WellFormedDate(text) ==
    LET tok == re_split(text) IN
    /\ Len(tok) >= 2
    /\ IntOk(tok[1])
    /\ IsMonthAbbrev(Capitalize3(tok[2]))
    /\ \E m \in 1..12 :
          /\ MonthAbbrevs[m] = Capitalize3(tok[2])
          /\ IntValue(tok[1]) \in 1..DaysInMonth(current_year, m)

\* C9: once the button is pressed with both files and a start-date text that
\* is not well formed, the run is in the invalid-date state, no date was
\* returned and process_data was not entered.
C9_MalformedDateRejected ==
    (pc # "idle" /\ AllGiven /\ ~WellFormedDate(start_date_str)) =>
        (pc = "invalid" /\ start_date = NoDate)

-----------------------------------------------------------------------------
(* C10 *)

\* C10: the summary returned has one row per returned name, in order: row i is
\* the row reconciled for the key of name i, and the sheet pairs them so.
C10_SummaryAligned ==
    /\ pc \in {"returned", "written"} =>
          /\ Len(output_data) = Len(raw_employee_list)
          /\ \A i \in 1..Len(raw_employee_list) :
                KeyOf(i) = clean_name(raw_employee_list[i])
    /\ pc = "written" =>
          /\ Len(sheet) = Len(raw_employee_list)
          /\ \A i \in 1..Len(sheet) :
                /\ sheet[i].Name = raw_employee_list[i]
                /\ KeyOf(i) = clean_name(sheet[i].Name)
                /\ sheet[i].Values = output_data[i]

====
